---- MODULE Spec2Model ----
(***************************************************************************)
(* Clash Royale data pipeline (src/src/build_dataset.py).                  *)
(*                                                                         *)
(* These specifications share this module:                                 *)
(*   Spec      runs of build_complete_dataset over the two persisted       *)
(*             artifacts (dataset file, visited-clans checkpoint), with    *)
(*             process kills between any two steps;                        *)
(*   SpecReq   one call of safe_request, one loop iteration per step;      *)
(*   SpecClan  one call of build_dataset_for_clan on an API payload drawn  *)
(*             from a bounded set of well-formed and malformed payloads;   *)
(*   SpecCheckpoint  save_visited_clans and load_visited_clans on a        *)
(*             checkpoint file that is absent, well-formed or torn;        *)
(*   SpecParse one call of parse_battle on a battle of the same payloads;  *)
(*   SpecLive  the runs repeated for ever without kills, under fairness.   *)
(*                                                                         *)
(* Python values: None is the empty tuple and a present optional value v   *)
(* is <<v>>; a dict is a function on its keys (a missing key is a key not  *)
(* in DOMAIN); a str is the tuple of its characters; a list is a tuple; a  *)
(* DataFrame is the tuple of its rows.                                     *)
(***************************************************************************)
EXTENDS Integers, Sequences, FiniteSets, TLC

VARIABLES
    \* ---- build_complete_dataset (Spec) ----
    pc,               \* position of the process
    disk_dataset,     \* data/clash_battles.parquet: None (no file) or <<table>>
    disk_visited,     \* checkpoints/visited_clans.json: None or <<sorted list>>
    df,               \* the in-memory table
    visited,          \* the in-memory visited set
    new_clans,        \* the clans selected for this run
    idx,              \* number of completed iterations of the expansion loop
    all_new_data,     \* tables of the non-empty crawls of this run
    max_new_clans,    \* the quota of this run
    runs,             \* number of runs started
    \* history of the run, read by the properties only
    in_df,            \* the table handed to discover_and_expand
    in_visited,       \* the visited set handed to discover_and_expand
    crawled,          \* expansion crawls of this run: <<[clan, nonempty]>>
    start_dataset,    \* disk_dataset when the run started
    start_visited,    \* disk_visited when the run started
    nonempty_crawled, \* clans some crawl of which returned a non-empty table
    \* ---- safe_request (SpecReq) ----
    rq_pc,            \* "idle", "loop", "returned" or "raised"
    rq_url,           \* the url argument
    rq_attempt,       \* iterations of the for loop started
    rq_log,           \* outcome of each requests.get issued, in order
    rq_sleeps,        \* argument of each time.sleep made, in order
    rq_ret,           \* the value returned
    \* ---- build_dataset_for_clan (SpecClan) ----
    cl_pc,            \* "called" or "returned"
    cl_tag,           \* the clan_tag argument
    cl_api,           \* what the API answers: url -> result of safe_request
    cl_df,            \* the table returned
    \* ---- save_visited_clans, load_visited_clans (SpecCheckpoint) ----
    ck_pc,            \* "idle", "start", "saved", "loaded" or "reloaded"
    ck_visited,       \* the set handed to save_visited_clans
    ck_file,          \* checkpoints/visited_clans.json: None or <<text>>
    ck_loaded,        \* the set load_visited_clans returned
    \* ---- parse_battle (SpecParse) ----
    pb_pc,            \* "idle", "called", "returned" or "raised"
    pb_n,             \* the number of the battle among the payloads
    pb_battle,        \* the battle argument
    pb_ret            \* the value returned: None or <<row>>

run_vars == <<pc, disk_dataset, disk_visited, df, visited, new_clans, idx,
              all_new_data, max_new_clans, runs, in_df, in_visited, crawled,
              start_dataset, start_visited, nonempty_crawled>>
req_vars == <<rq_pc, rq_url, rq_attempt, rq_log, rq_sleeps, rq_ret>>
clan_vars == <<cl_pc, cl_tag, cl_api, cl_df>>
ck_vars == <<ck_pc, ck_visited, ck_file, ck_loaded>>
pb_vars == <<pb_pc, pb_n, pb_battle, pb_ret>>
vars == <<run_vars, req_vars, clan_vars, ck_vars, pb_vars>>

-----------------------------------------------------------------------------
(* Python values *)

None == <<>>
Some(v) == <<v>>

Has(d, k) == k \in DOMAIN d

EmptyDict == <<>>

\* JSON values that are not objects: they have no .get and no keys.
JsonNull == [json |-> "null"]
JsonString == [json |-> "string"]
IsObject(v) == ~Has(v, "json")

\* bool(v) of a JSON value: null and {} are falsy.
Truthy(v) == IF IsObject(v) THEN DOMAIN v # {} ELSE v # JsonNull

Min(a, b) == IF a < b THEN a ELSE b

Range(s) == {s[i] : i \in 1..Len(s)}

RECURSIVE Concat(_)
\* The concatenation of a tuple of tuples.
Concat(ss) == IF ss = <<>> THEN <<>> ELSE Head(ss) \o Concat(Tail(ss))

\* s[1:]
StripFirst(s) == IF Len(s) = 0 THEN s ELSE Tail(s)

\* s.replace("#", "")
StripHash(s) == SelectSeq(s, LAMBDA c : c # "#")

\* The characters of the tags, in code point order.
Alphabet == <<"\"", "#", ",", "0", "1", "2", "9", "A", "B", "C", "G", "L", "Q",
              "V", "X", "\\">>
CharRank(c) == CHOOSE i \in 1..Len(Alphabet) : Alphabet[i] = c

\* a < b on Python str
StrLess(a, b) ==
    \/ \E i \in 1..Min(Len(a), Len(b)) :
          /\ \A j \in 1..(i - 1) : a[j] = b[j]
          /\ CharRank(a[i]) < CharRank(b[i])
    \/ /\ Len(a) < Len(b)
       /\ \A j \in 1..Len(a) : a[j] = b[j]

RECURSIVE sorted(_)
\* sorted(S) of a set of str
sorted(S) ==
    IF S = {} THEN <<>>
    ELSE LET m == CHOOSE x \in S : \A y \in S \ {x} : StrLess(x, y)
         IN <<m>> \o sorted(S \ {m})

-----------------------------------------------------------------------------
(* api_config.py, config.py *)

MAX_RETRIES == 3

FIRST_CLAN_TAG == <<"L", "0", "V", "9", "G", "Q", "Q", "G">>

MAX_NEW_CLANS == 3

\* f"{BASE_URL}/clans/%23{clan_tag}/members"
ClanMembersUrl(clan_tag) == [path |-> "clans/members", tag |-> clan_tag]
\* f"{BASE_URL}/players/%23{player_tag}/battlelog"
BattlelogUrl(player_tag) == [path |-> "players/battlelog", tag |-> player_tag]

\* What safe_request(url) returns under `api`: None, or <<response>>. A url the
\* API does not know is answered 404, for which safe_request returns None.
Fetch(api, url) == IF url \in DOMAIN api THEN api[url] ELSE None

\* response.json() raises on a body that is not JSON.
JsonOk(response) == response.ok

-----------------------------------------------------------------------------
(* parse_battle *)

CardsOk(p) ==
    /\ Has(p, "cards")
    /\ \A i \in 1..Len(p.cards) : IsObject(p.cards[i]) /\ Has(p.cards[i], "name")

\* opponent.get("clan", {}).get("tag", None).replace("#", "") raises when the
\* clan is truthy and has no tag (None has no replace).
ClanOk(opponent) ==
    \/ ~Has(opponent, "clan")
    \/ ~Truthy(opponent.clan)
    \/ IsObject(opponent.clan) /\ Has(opponent.clan, "tag")

\* No statement of the try block raises.
ParseOk(battle) ==
    /\ IsObject(battle)
    /\ Has(battle, "team") /\ Len(battle.team) > 0
    /\ Has(battle, "opponent") /\ Len(battle.opponent) > 0
    /\ LET player == battle.team[1]
           opponent == battle.opponent[1]
       IN /\ IsObject(player) /\ IsObject(opponent)
          /\ CardsOk(opponent) /\ CardsOk(player)
          /\ Has(player, "crowns") /\ Has(opponent, "crowns")
          /\ Has(player, "tag") /\ Has(opponent, "tag")
          /\ ClanOk(opponent)

Deck(p) == [i \in 1..Len(p.cards) |-> p.cards[i].name]

StartingTrophies(p) ==
    IF Has(p, "startingTrophies") THEN Some(p.startingTrophies) ELSE None

OpponentClan(opponent) ==
    IF Has(opponent, "clan") /\ Truthy(opponent.clan)
    THEN Some(StripHash(opponent.clan.tag))
    ELSE None

ParseResult(crowns, opponent_crowns) == IF crowns > opponent_crowns THEN 1 ELSE 0

parse_battle(battle) ==
    IF ~ParseOk(battle) THEN None
    ELSE LET player == battle.team[1]
             opponent == battle.opponent[1]
         IN Some([player_tag |-> player.tag,
                  player_deck |-> Deck(player),
                  player_trophies |-> StartingTrophies(player),
                  player_crowns |-> player.crowns,
                  opponent_tag |-> opponent.tag,
                  opponent_clan |-> OpponentClan(opponent),
                  opponent_crowns |-> opponent.crowns,
                  opponent_trophies |-> StartingTrophies(opponent),
                  opponent_deck |-> Deck(opponent),
                  result |-> ParseResult(player.crowns, opponent.crowns)])

-----------------------------------------------------------------------------
(* get_clan_members, get_battles_for_player, build_dataset_for_clan *)

get_clan_members(clan_tag, api) ==
    LET response == Fetch(api, ClanMembersUrl(clan_tag))
    IN IF response = None THEN <<>>
       ELSE LET r == response[1]
                ok == /\ JsonOk(r)
                      /\ IsObject(r.json) /\ Has(r.json, "items")
                      /\ \A i \in 1..Len(r.json.items) :
                            IsObject(r.json.items[i]) /\ Has(r.json.items[i], "tag")
            IN IF ~ok THEN <<>>
               ELSE [i \in 1..Len(r.json.items) |-> StripFirst(r.json.items[i].tag)]

\* battle.get("gameMode", {}).get("name") raises on an entry, or a gameMode,
\* that is not an object.
ModeOk(battle) ==
    /\ IsObject(battle)
    /\ Has(battle, "gameMode") => IsObject(battle.gameMode)

IsLadder(battle) ==
    LET mode == IF Has(battle, "gameMode") THEN battle.gameMode ELSE EmptyDict
    IN Has(mode, "name") /\ mode.name = "Ladder"

RECURSIVE ParsedLadder(_)
\* The body of the for loop, over a list every entry of which passes ModeOk.
ParsedLadder(battles) ==
    IF battles = <<>> THEN <<>>
    ELSE LET parsed == IF IsLadder(Head(battles))
                       THEN parse_battle(Head(battles))
                       ELSE None
         IN parsed \o ParsedLadder(Tail(battles))

get_battles_for_player(player_tag, api) ==
    LET response == Fetch(api, BattlelogUrl(player_tag))
    IN IF response = None THEN <<>>
       ELSE LET r == response[1]
                ok == /\ JsonOk(r)
                      /\ \A i \in 1..Len(r.json) : ModeOk(r.json[i])
            IN IF ~ok THEN <<>> ELSE ParsedLadder(r.json)

\* AllParsedBattles giving up the clan when the battle log of a member
\* cannot be fetched.
AllParsedBattles_all_or_nothing(clan_tag, api) ==
    LET player_tags == get_clan_members(clan_tag, api)
    IN IF \E i \in 1..Len(player_tags) :
             Fetch(api, BattlelogUrl(player_tags[i])) = None
       THEN <<>>
       ELSE Concat([i \in 1..Len(player_tags) |->
                       get_battles_for_player(player_tags[i], api)])

\* Lines 236-243: the parsed battles of all members, in member order.
AllParsedBattles(clan_tag, api) ==
    LET player_tags == get_clan_members(clan_tag, api)
    IN Concat([i \in 1..Len(player_tags) |->
                  get_battles_for_player(player_tags[i], api)])

\* flipped copying the opponent_clan of the row instead of clearing it.
flipped_keeps_clan(row) ==
    [player_tag |-> row.opponent_tag,
     player_deck |-> row.opponent_deck,
     player_trophies |-> row.opponent_trophies,
     player_crowns |-> row.opponent_crowns,
     opponent_tag |-> row.player_tag,
     opponent_clan |-> row.opponent_clan,
     opponent_crowns |-> row.player_crowns,
     opponent_trophies |-> row.player_trophies,
     opponent_deck |-> row.player_deck,
     result |-> IF row.result = 1 THEN 0 ELSE 1]

\* Lines 250-261: the row seen from the opponent's side.
flipped(row) ==
    [player_tag |-> row.opponent_tag,
     player_deck |-> row.opponent_deck,
     player_trophies |-> row.opponent_trophies,
     player_crowns |-> row.opponent_crowns,
     opponent_tag |-> row.player_tag,
     opponent_clan |-> None,
     opponent_crowns |-> row.player_crowns,
     opponent_trophies |-> row.player_trophies,
     opponent_deck |-> row.player_deck,
     result |-> IF row.result = 1 THEN 0 ELSE 1]

build_dataset_for_clan(clan_tag, api) ==
    LET rows == AllParsedBattles(clan_tag, api)
        new_rows == [i \in 1..Len(rows) |-> flipped(rows[i])]
    IN rows \o new_rows

-----------------------------------------------------------------------------
(* The API seen by the runs of Spec: a fixed set of clans, members and Ladder *)
(* battles; what varies from crawl to crawl is which requests fail.           *)

ClanA == <<"A">>
ClanB == <<"B">>
ClanC == <<"C">>
Clans == {FIRST_CLAN_TAG, ClanA, ClanB, ClanC}

\* One Ladder battle per member. ClanC has no member: its crawl is always empty.
Matches ==
    << [clan |-> FIRST_CLAN_TAG, player |-> <<"#", "L", "1">>, crowns |-> 2,
        opp |-> <<"#", "A", "1">>, opp_clan |-> Some(ClanA), opp_crowns |-> 1],
       [clan |-> FIRST_CLAN_TAG, player |-> <<"#", "L", "2">>, crowns |-> 1,
        opp |-> <<"#", "B", "1">>, opp_clan |-> Some(ClanB), opp_crowns |-> 1],
       [clan |-> ClanA, player |-> <<"#", "A", "1">>, crowns |-> 1,
        opp |-> <<"#", "L", "1">>, opp_clan |-> Some(FIRST_CLAN_TAG), opp_crowns |-> 2],
       [clan |-> ClanA, player |-> <<"#", "A", "2">>, crowns |-> 3,
        opp |-> <<"#", "X", "1">>, opp_clan |-> None, opp_crowns |-> 0],
       [clan |-> ClanB, player |-> <<"#", "B", "1">>, crowns |-> 0,
        opp |-> <<"#", "C", "1">>, opp_clan |-> Some(ClanC), opp_crowns |-> 1] >>

\* A participant of a battle as the API reports it.
Participant(tag, clan, crowns) ==
    LET p == [tag |-> tag, crowns |-> crowns, startingTrophies |-> 5000,
              cards |-> <<[name |-> "Knight"]>>]
    IN IF clan = None THEN p ELSE p @@ [clan |-> [tag |-> <<"#">> \o clan[1]]]

MatchBattle(m) ==
    [gameMode |-> [name |-> "Ladder"],
     team |-> <<Participant(m.player, Some(m.clan), m.crowns)>>,
     opponent |-> <<Participant(m.opp, m.opp_clan, m.opp_crowns)>>]

MatchesOf(clan) == SelectSeq(Matches, LAMBDA m : m.clan = clan)

WorldUrls ==
    {ClanMembersUrl(c) : c \in Clans}
        \cup {BattlelogUrl(StripFirst(Matches[i].player)) : i \in 1..Len(Matches)}

\* The response body of a successful request.
WorldBody(url) ==
    IF url.path = "clans/members"
    THEN LET ms == MatchesOf(url.tag)
         IN [ok |-> TRUE,
             json |-> [items |-> [i \in 1..Len(ms) |-> [tag |-> ms[i].player]]]]
    ELSE LET ms == SelectSeq(Matches, LAMBDA m : StripFirst(m.player) = url.tag)
         IN [ok |-> TRUE, json |-> [i \in 1..Len(ms) |-> MatchBattle(ms[i])]]

\* The requests a crawl of `clan` makes when none fails.
CrawlUrls(clan) ==
    {ClanMembersUrl(clan)}
        \cup {BattlelogUrl(StripFirst(m.player)) : m \in Range(MatchesOf(clan))}

\* The API during one crawl of `clan`: any subset of the requests fails.
CrawlApis(clan) ==
    {[u \in WorldUrls |-> IF u \in down THEN None ELSE Some(WorldBody(u))] :
        down \in SUBSET CrawlUrls(clan)}

-----------------------------------------------------------------------------
(* Persistence *)

\* A file is None (no file) or <<text>>, the text a tuple of characters.

\* json.dumps of a str: quoted, with quote and backslash escaped.
json_dumps_str(str) ==
    LET Escaped(c) == IF c \in {"\"", "\\"} THEN <<"\\", c>> ELSE <<c>>
    IN <<"\"">> \o Concat([i \in 1..Len(str) |-> Escaped(str[i])]) \o <<"\"">>

\* json.dumps(list) without the escaping of the characters of a str.
json_dumps_unescaped(list) ==
    LET Item(i) == (IF i = 1 THEN <<>> ELSE <<",", " ">>)
                       \o <<"\"">> \o list[i] \o <<"\"">>
    IN <<"[">> \o Concat([i \in 1..Len(list) |-> Item(i)]) \o <<"]">>

\* json.dumps of a list of str: '["A", "B"]'
json_dumps(list) ==
    LET Item(i) == (IF i = 1 THEN <<>> ELSE <<",", " ">>)
                       \o json_dumps_str(list[i])
    IN <<"[">> \o Concat([i \in 1..Len(list) |-> Item(i)]) \o <<"]">>

\* The result of a parsing step: failed, or the value read and the position
\* after it.
ReadError == [ok |-> FALSE, value |-> <<>>, next |-> 0]
ReadOk(value, next) == [ok |-> TRUE, value |-> value, next |-> next]

RECURSIVE SkipWs(_, _)
\* The position of the first character at or after i that is not a space.
SkipWs(text, i) ==
    IF i <= Len(text) /\ text[i] = " " THEN SkipWs(text, i + 1) ELSE i

RECURSIVE ScanString(_, _, _)
\* The JSON string whose opening quote is before position i.
ScanString(text, i, acc) ==
    IF i > Len(text) THEN ReadError
    ELSE IF text[i] = "\"" THEN ReadOk(acc, i + 1)
    ELSE IF text[i] = "\\"
         THEN IF i + 1 <= Len(text) /\ text[i + 1] \in {"\"", "\\"}
              THEN ScanString(text, i + 2, Append(acc, text[i + 1]))
              ELSE ReadError
    ELSE ScanString(text, i + 1, Append(acc, text[i]))

RECURSIVE ParseElems(_, _, _)
\* The elements of a JSON array from position i on, up to its "]".
ParseElems(text, i, acc) ==
    IF i > Len(text) \/ text[i] # "\"" THEN ReadError
    ELSE LET str == ScanString(text, i + 1, <<>>)
             j == SkipWs(text, str.next)
         IN IF ~str.ok \/ j > Len(text) THEN ReadError
            ELSE IF text[j] = ","
                 THEN ParseElems(text, SkipWs(text, j + 1), Append(acc, str.value))
            ELSE IF text[j] = "]" THEN ReadOk(Append(acc, str.value), j + 1)
            ELSE ReadError

\* set(json.loads(text)) for a text that is a JSON array of strings, a part
\* of one, or null: ok is FALSE when json.loads or set() raises.
json_loads(text) ==
    LET i == SkipWs(text, 1)
        j == SkipWs(text, i + 1)
        list == IF i > Len(text) \/ text[i] # "[" THEN ReadError
                ELSE IF j <= Len(text) /\ text[j] = "]" THEN ReadOk(<<>>, j + 1)
                ELSE ParseElems(text, j, <<>>)
    IN IF list.ok /\ SkipWs(text, list.next) = Len(text) + 1
       THEN list
       ELSE ReadError

\* What save_visited_clans writes: json.dumps(sorted(visited)).
save_visited_clans(visited_clans) == Some(json_dumps(sorted(visited_clans)))

\* load_visited_clans without the try/except of lines 42-49 and with a
\* parser that yields what it read before the error.
load_visited_clans_lenient(file) ==
    IF file = None THEN {}
    ELSE LET text == file[1]
             Closed(k) == json_loads(SubSeq(text, 1, k) \o <<"]">>)
             ks == {k \in 0..Len(text) : Closed(k).ok}
         IN IF ks = {} THEN {}
            ELSE Range(Closed(CHOOSE k \in ks : \A m \in ks : m <= k).value)

\* load_visited_clans: no file gives the empty set; a text that does not
\* load raises inside the try and gives the empty set.
load_visited_clans(file) ==
    IF file = None THEN {}
    ELSE LET data == json_loads(file[1])
         IN IF data.ok THEN Range(data.value) ELSE {}

\* df[column] raises KeyError on a DataFrame built from no rows: it has no
\* columns. Every other table of a run has the ten columns of its rows.
HasColumns(table) == Len(table) > 0

RECURSIVE unique(_)
\* Series.unique(): the distinct values in order of first appearance.
unique(s) ==
    IF s = <<>> THEN <<>>
    ELSE LET rest == unique(SubSeq(s, 1, Len(s) - 1))
             last == s[Len(s)]
         IN IF last \in Range(rest) THEN rest ELSE Append(rest, last)

\* df["opponent_clan"].dropna().unique()
potential_clans(table) ==
    LET present == SelectSeq(table, LAMBDA row : row.opponent_clan # None)
    IN unique([i \in 1..Len(present) |-> present[i].opponent_clan[1]])

\* select_new_clans without the [:max_new_clans] slice.
select_new_clans_unsliced(table, quota, visited_clans) ==
    SelectSeq(potential_clans(table), LAMBDA c : c \notin visited_clans)

\* select_new_clans without the `if c not in visited_clans` filter.
select_new_clans_unfiltered(table, quota, visited_clans) ==
    LET all == potential_clans(table)
    IN SubSeq(all, 1, Min(quota, Len(all)))

\* [c for c in potential_clans if c not in visited_clans][:max_new_clans]
select_new_clans(table, quota, visited_clans) ==
    LET unvisited == SelectSeq(potential_clans(table),
                               LAMBDA c : c \notin visited_clans)
    IN SubSeq(unvisited, 1, Min(quota, Len(unvisited)))

-----------------------------------------------------------------------------
(* build_complete_dataset, one action per step between two disk accesses *)

\* Runs started in a behaviour.
MaxRuns == 3

Quotas == 0..MAX_NEW_CLANS

Stopped == {"idle", "done", "raised", "killed"}

\* The local variables of a process that has not started.
Fresh ==
    /\ visited' = {}
    /\ new_clans' = <<>>
    /\ idx' = 0
    /\ all_new_data' = <<>>
    /\ in_df' = <<>>
    /\ in_visited' = {}
    /\ crawled' = <<>>

\* Lines 328-334: main starts the process; it loads the dataset file, or
\* crawls the starting clan when there is none.
StartProcess ==
    /\ pc \in Stopped
    /\ pc' = "loaded"
    /\ Fresh
    /\ \E quota \in Quotas : max_new_clans' = quota
    /\ start_dataset' = disk_dataset
    /\ start_visited' = disk_visited
    /\ IF disk_dataset # None
       THEN /\ df' = disk_dataset[1]
            /\ UNCHANGED nonempty_crawled
       ELSE \E api \in CrawlApis(FIRST_CLAN_TAG) :
              LET first == build_dataset_for_clan(FIRST_CLAN_TAG, api)
              IN /\ df' = first
                 /\ nonempty_crawled' =
                       IF first # <<>>
                       THEN nonempty_crawled \cup {FIRST_CLAN_TAG}
                       ELSE nonempty_crawled
    /\ UNCHANGED <<disk_dataset, disk_visited>>

\* One of the MaxRuns starts of the process.
LoadOrCrawlFirst ==
    /\ runs < MaxRuns
    /\ runs' = runs + 1
    /\ StartProcess

\* Lines 336-337 and 291-295: the checkpoint is loaded and discover_and_expand
\* selects the clans of this run; df["opponent_clan"] raises on a table
\* without columns and nothing catches it.
BeginExpand ==
    /\ pc = "loaded"
    /\ LET loaded == load_visited_clans(disk_visited)
       IN /\ visited' = loaded
          /\ in_visited' = loaded
          /\ in_df' = df
          /\ IF HasColumns(df)
             THEN /\ new_clans' = select_new_clans(df, max_new_clans, loaded)
                  /\ pc' = "expanding"
             ELSE /\ new_clans' = <<>>
                  /\ pc' = "raised"
    /\ UNCHANGED <<disk_dataset, disk_visited, df, idx, all_new_data,
                   max_new_clans, runs, crawled, start_dataset, start_visited,
                   nonempty_crawled>>

\* Lines 296-302: one iteration of the expansion loop.
ExpandClan ==
    /\ pc = "expanding"
    /\ idx < Len(new_clans)
    /\ LET clan_tag == new_clans[idx + 1]
       IN \E api \in CrawlApis(clan_tag) :
            LET new_df == build_dataset_for_clan(clan_tag, api)
            IN /\ idx' = idx + 1
               /\ crawled' = Append(crawled, [clan |-> clan_tag,
                                              nonempty |-> new_df # <<>>])
               /\ IF new_df # <<>>
                  THEN /\ all_new_data' = Append(all_new_data, new_df)
                       /\ visited' = visited \cup {clan_tag}
                       /\ disk_visited' = save_visited_clans(visited')
                       /\ nonempty_crawled' = nonempty_crawled \cup {clan_tag}
                  ELSE UNCHANGED <<all_new_data, visited, disk_visited,
                                   nonempty_crawled>>
    /\ UNCHANGED <<pc, disk_dataset, df, new_clans, max_new_clans, runs, in_df,
                   in_visited, start_dataset, start_visited>>

\* FinishExpand returning the new tables alone, without the input table.
FinishExpand_new_only ==
    /\ pc = "expanding"
    /\ idx = Len(new_clans)
    /\ df' = IF all_new_data # <<>> THEN Concat(all_new_data) ELSE df
    /\ pc' = "expanded"
    /\ UNCHANGED <<disk_dataset, disk_visited, visited, new_clans, idx,
                   all_new_data, max_new_clans, runs, in_df, in_visited, crawled,
                   start_dataset, start_visited, nonempty_crawled>>

\* Lines 304-307 and 339: the loop is over, the new tables are appended and
\* discover_and_expand returns.
FinishExpand ==
    /\ pc = "expanding"
    /\ idx = Len(new_clans)
    /\ df' = IF all_new_data # <<>> THEN df \o Concat(all_new_data) ELSE df
    /\ pc' = "expanded"
    /\ UNCHANGED <<disk_dataset, disk_visited, visited, new_clans, idx,
                   all_new_data, max_new_clans, runs, in_df, in_visited, crawled,
                   start_dataset, start_visited, nonempty_crawled>>

\* Line 340: save_parquet(expanded_df, ...)
SaveParquet ==
    /\ pc = "expanded"
    /\ disk_dataset' = Some(df)
    /\ pc' = "parquet_saved"
    /\ UNCHANGED <<disk_visited, df, visited, new_clans, idx, all_new_data,
                   max_new_clans, runs, in_df, in_visited, crawled,
                   start_dataset, start_visited, nonempty_crawled>>

\* Lines 341-342: save_visited_clans(visited), and the process exits.
SaveVisited ==
    /\ pc = "parquet_saved"
    /\ disk_visited' = save_visited_clans(visited)
    /\ pc' = "done"
    /\ UNCHANGED <<disk_dataset, df, visited, new_clans, idx, all_new_data,
                   max_new_clans, runs, in_df, in_visited, crawled,
                   start_dataset, start_visited, nonempty_crawled>>

\* The process is killed: its memory is lost, the files stay as they are.
Kill ==
    /\ pc \notin Stopped
    /\ pc' = "killed"
    /\ Fresh
    /\ df' = <<>>
    /\ UNCHANGED <<disk_dataset, disk_visited, max_new_clans, runs,
                   start_dataset, start_visited, nonempty_crawled>>

\* No file exists before the first run.
InitRun ==
    /\ pc = "idle"
    /\ disk_dataset = None
    /\ disk_visited = None
    /\ df = <<>>
    /\ visited = {}
    /\ new_clans = <<>>
    /\ idx = 0
    /\ all_new_data = <<>>
    /\ max_new_clans = 0
    /\ runs = 0
    /\ in_df = <<>>
    /\ in_visited = {}
    /\ crawled = <<>>
    /\ start_dataset = None
    /\ start_visited = None
    /\ nonempty_crawled = {}

\* safe_request and build_dataset_for_clan before any call.
InitReqIdle ==
    /\ rq_pc = "idle"
    /\ rq_url = ClanMembersUrl(FIRST_CLAN_TAG)
    /\ rq_attempt = 0
    /\ rq_log = <<>>
    /\ rq_sleeps = <<>>
    /\ rq_ret = None

InitClanIdle ==
    /\ cl_pc = "idle"
    /\ cl_tag = FIRST_CLAN_TAG
    /\ cl_api = <<>>
    /\ cl_df = <<>>

InitCkIdle ==
    /\ ck_pc = "idle"
    /\ ck_visited = {}
    /\ ck_file = None
    /\ ck_loaded = {}

InitPbIdle ==
    /\ pb_pc = "idle"
    /\ pb_n = 0
    /\ pb_battle = JsonNull
    /\ pb_ret = None

Init == InitRun /\ InitReqIdle /\ InitClanIdle /\ InitCkIdle /\ InitPbIdle

\* The runs leave the variables of the other specifications alone.
OnlyRun == UNCHANGED <<req_vars, clan_vars, ck_vars, pb_vars>>

Next ==
    \/ LoadOrCrawlFirst /\ OnlyRun
    \/ BeginExpand /\ OnlyRun
    \/ ExpandClan /\ OnlyRun
    \/ FinishExpand /\ OnlyRun
    \/ SaveParquet /\ OnlyRun
    \/ SaveVisited /\ OnlyRun
    \/ Kill /\ OnlyRun

Spec == Init /\ [][Next]_vars

-----------------------------------------------------------------------------
(* Properties of the runs (Spec) *)

\* The clans in the file of the checkpoint.
OnDiskVisited == load_visited_clans(disk_visited)

\* The present opponent_clan values of a table.
OpponentClans(table) ==
    {table[i].opponent_clan[1] :
        i \in {j \in 1..Len(table) : table[j].opponent_clan # None}}

\* The clans discover_and_expand may select: opponent clans of its input
\* table that are not in its input visited set.
Candidates == OpponentClans(in_df) \ in_visited

CrawledClans == {crawled[i].clan : i \in 1..Len(crawled)}
CrawledNonEmpty == {crawled[i].clan : i \in {j \in 1..Len(crawled) : crawled[j].nonempty}}

\* C1: at the end of every completed run a clan is in the visited set if and
\* only if a crawl of it returned a non-empty table, the crawl of the
\* starting clan included.
C1_VisitedIffNonEmptyCrawl ==
    pc = "done" =>
        /\ visited = nonempty_crawled
        /\ OnDiskVisited = nonempty_crawled

\* C2: before the final save step of a run, the dataset file and the
\* checkpoint file are as they were when the run started.
C2_NoWriteBeforeFinalSave ==
    pc \in {"loaded", "expanding", "expanded"} =>
        /\ disk_dataset = start_dataset
        /\ disk_visited = start_visited

\* C3: whatever the requests answer, a run raises no exception.
C3_RunNeverRaises == pc # "raised"

\* C4: discover_and_expand crawls at most `quota` clans, each once, each a
\* present opponent_clan of the input table outside the input visited set;
\* when it returns it has crawled min(quota, number of candidates) clans and
\* the visited set is the input set plus the clans whose crawl was
\* non-empty, every other candidate staying unvisited.
C4_ExpandSelection ==
    pc \in {"expanding", "expanded", "parquet_saved", "done"} =>
        /\ Len(crawled) <= max_new_clans
        /\ \A i, j \in 1..Len(crawled) : crawled[i].clan = crawled[j].clan => i = j
        /\ CrawledClans \subseteq Candidates
        /\ visited = in_visited \cup CrawledNonEmpty
        /\ \A c \in Candidates \ CrawledNonEmpty : c \notin visited
        /\ pc # "expanding" =>
              Len(crawled) = Min(max_new_clans, Cardinality(Candidates))

\* C4 witness: three opponent clans, one of them visited, quota 1: one of the
\* other two is crawled and added, the other is left unvisited.
C4_Witness ==
    /\ pc = "expanded"
    /\ max_new_clans = 1
    /\ Cardinality(OpponentClans(in_df)) = 3
    /\ Cardinality(in_visited) = 1
    /\ Cardinality(Candidates) = 2
    /\ Len(crawled) = 1
    /\ crawled[1].nonempty
    /\ visited = in_visited \cup {crawled[1].clan}
    /\ \E c \in Candidates : c \notin visited

\* C11: a clan that is in the checkpoint file when a run starts is never
\* passed to build_dataset_for_clan by the expansion step of that run, also
\* when the checkpoint was left by a run killed after an in-loop save.
C11_CheckpointedNeverRecrawled ==
    \A i \in 1..Len(crawled) :
        crawled[i].clan \notin load_visited_clans(start_visited)

\* C11 witness: a killed run left a checkpoint and no dataset file; the next
\* run finds a checkpointed clan among the opponent clans of its table and
\* has crawled another clan.
C11_Witness ==
    /\ pc = "expanding"
    /\ start_dataset = None
    /\ start_visited # None
    /\ load_visited_clans(start_visited) \cap OpponentClans(in_df) # {}
    /\ Len(crawled) >= 1

IsPrefix(s, t) == Len(s) <= Len(t) /\ SubSeq(t, 1, Len(s)) = s

\* The rows some crawl of `clan` can return.
RowsOfCrawls(clan) ==
    UNION {Range(build_dataset_for_clan(clan, api)) : api \in CrawlApis(clan)}

\* C18: the table discover_and_expand returns is its input table, unchanged,
\* followed only by rows of clans crawled in this call; the dataset file a
\* run writes begins with the rows of the file the run started with; when no
\* crawl of the call yields rows, the table and the visited set returned are
\* the inputs.
C18_AppendOnly ==
    /\ pc \in {"expanded", "parquet_saved", "done"} =>
          /\ IsPrefix(in_df, df)
          /\ \A i \in (Len(in_df) + 1)..Len(df) :
                \E c \in CrawledNonEmpty : df[i] \in RowsOfCrawls(c)
          /\ CrawledNonEmpty = {} => df = in_df /\ visited = in_visited
    /\ pc \in {"parquet_saved", "done"} /\ start_dataset # None =>
          /\ disk_dataset # None
          /\ IsPrefix(start_dataset[1], disk_dataset[1])

\* C18 witness: a run that started from a dataset file has completed and
\* has written a longer one.
C18_Witness ==
    /\ pc = "done"
    /\ start_dataset # None
    /\ CrawledNonEmpty # {}
    /\ Len(disk_dataset[1]) > Len(start_dataset[1])

\* C19: whenever no run is in progress, after completed and killed runs,
\* every clan in the checkpoint file has the rows of a non-empty crawl of it
\* in the dataset file.
C19_CheckpointedRowsPersisted ==
    pc \in Stopped =>
        \A c \in OnDiskVisited :
            /\ disk_dataset # None
            /\ \E api \in CrawlApis(c) :
                  LET rows == build_dataset_for_clan(c, api)
                  IN rows # <<>> /\ Range(rows) \subseteq Range(disk_dataset[1])

-----------------------------------------------------------------------------
(* safe_request, one action per branch of an iteration of its loop *)

\* time.sleep(10) on HTTP 429, time.sleep(5) on a RequestException
RATE_LIMIT_SLEEP == 10
ERROR_SLEEP == 5

\* What requests.get does: it returns a response with a status code, or
\* raises a RequestException.
StatusCodes == {200, 429, 403, 404, 500, 503}
Raised == [raised |-> TRUE, status_code |-> 0]
Answered(code) == [raised |-> FALSE, status_code |-> code]

Is200(o) == ~o.raised /\ o.status_code = 200
Is429(o) == ~o.raised /\ o.status_code = 429
IsUnexpected(o) == ~o.raised /\ o.status_code \notin {200, 429}

\* The call: safe_request(url, headers)
SafeRequestCall ==
    /\ rq_pc = "idle"
    /\ \E url \in WorldUrls : rq_url' = url
    /\ rq_pc' = "loop"
    /\ UNCHANGED <<rq_attempt, rq_log, rq_sleeps, rq_ret>>

\* Line 98 enters the body, line 100 issues the request.
Request(outcome) ==
    /\ rq_pc = "loop"
    /\ rq_attempt < MAX_RETRIES
    /\ rq_attempt' = rq_attempt + 1
    /\ rq_log' = Append(rq_log, outcome)
    /\ UNCHANGED rq_url

\* Lines 101-102
Get200 ==
    /\ Request(Answered(200))
    /\ rq_ret' = Some([status_code |-> 200, url |-> rq_url])
    /\ rq_pc' = "returned"
    /\ UNCHANGED rq_sleeps

\* Get429 sleeping as after a RequestException.
Get429_short_sleep ==
    /\ Request(Answered(429))
    /\ rq_sleeps' = Append(rq_sleeps, ERROR_SLEEP)
    /\ UNCHANGED <<rq_pc, rq_ret>>

\* Lines 103-105
Get429 ==
    /\ Request(Answered(429))
    /\ rq_sleeps' = Append(rq_sleeps, RATE_LIMIT_SLEEP)
    /\ UNCHANGED <<rq_pc, rq_ret>>

\* GetUnexpected going on with the loop instead of returning.
GetUnexpected_retry ==
    /\ \E code \in StatusCodes \ {200, 429} : Request(Answered(code))
    /\ UNCHANGED <<rq_pc, rq_ret, rq_sleeps>>

\* Lines 106-108
GetUnexpected ==
    /\ \E code \in StatusCodes \ {200, 429} : Request(Answered(code))
    /\ rq_ret' = None
    /\ rq_pc' = "returned"
    /\ UNCHANGED rq_sleeps

\* GetRaises without the except clause: the exception leaves safe_request.
GetRaises_uncaught ==
    /\ Request(Raised)
    /\ rq_pc' = "raised"
    /\ UNCHANGED <<rq_ret, rq_sleeps>>

\* GetRaises sleeping only when an attempt is left.
GetRaises_sleep_between ==
    /\ Request(Raised)
    /\ rq_sleeps' = IF rq_attempt' < MAX_RETRIES
                    THEN Append(rq_sleeps, ERROR_SLEEP)
                    ELSE rq_sleeps
    /\ UNCHANGED <<rq_pc, rq_ret>>

\* Lines 109-111
GetRaises ==
    /\ Request(Raised)
    /\ rq_sleeps' = Append(rq_sleeps, ERROR_SLEEP)
    /\ UNCHANGED <<rq_pc, rq_ret>>

\* Line 112: the loop is exhausted.
GiveUp ==
    /\ rq_pc = "loop"
    /\ rq_attempt = MAX_RETRIES
    /\ rq_ret' = None
    /\ rq_pc' = "returned"
    /\ UNCHANGED <<rq_url, rq_attempt, rq_log, rq_sleeps>>

OnlyReq == UNCHANGED <<run_vars, clan_vars, ck_vars, pb_vars>>

NextReq ==
    \/ SafeRequestCall /\ OnlyReq
    \/ Get200 /\ OnlyReq
    \/ Get429 /\ OnlyReq
    \/ GetUnexpected /\ OnlyReq
    \/ GetRaises /\ OnlyReq
    \/ GiveUp /\ OnlyReq

SpecReq == Init /\ [][NextReq]_vars

\* requests.get returns or raises, and the single thread goes on.
SpecReqLive == SpecReq /\ WF_vars(NextReq)

-----------------------------------------------------------------------------
(* Properties of safe_request (SpecReq, SpecReqLive) *)

LastOutcome == rq_log[Len(rq_log)]
AllRaised == \A i \in 1..Len(rq_log) : rq_log[i].raised
\* The log is k replies 429 followed by one 200.
RateLimitedThen200 ==
    /\ Len(rq_log) >= 1
    /\ Is200(LastOutcome)
    /\ \A i \in 1..(Len(rq_log) - 1) : Is429(rq_log[i])

\* C6: safe_request always returns and never raises: it returns the response
\* as soon as a request is answered 200, and None otherwise, at the latest
\* once MAX_RETRIES requests have been made.
C6_SafeRequestReturns ==
    /\ [](rq_pc # "raised")
    /\ [](Len(rq_log) <= MAX_RETRIES)
    /\ [](\A i \in 1..Len(rq_log) :
             Is200(rq_log[i]) => i = Len(rq_log) /\ rq_pc = "returned")
    /\ [](rq_pc = "returned" =>
             /\ rq_ret # None <=> Is200(LastOutcome)
             /\ rq_ret # None => rq_ret[1].status_code = 200
             /\ rq_ret = None =>
                   IsUnexpected(LastOutcome) \/ Len(rq_log) = MAX_RETRIES)
    /\ (rq_pc = "loop" ~> rq_pc = "returned")

\* C6 witness: None is returned after MAX_RETRIES requests, rate limits and
\* transport errors among them.
C6_Witness ==
    /\ rq_pc = "returned"
    /\ rq_ret = None
    /\ Len(rq_log) = MAX_RETRIES
    /\ \E i, j \in 1..Len(rq_log) : Is429(rq_log[i]) /\ rq_log[j].raised

\* C7 as claimed: when all 3 requests raise, safe_request returns None after
\* 3 requests and 2 sleeps of 5.
C7_TwoSleepsClaimed ==
    (rq_pc = "returned" /\ AllRaised) =>
        /\ rq_ret = None
        /\ Len(rq_log) = 3
        /\ rq_sleeps = <<5, 5>>

\* C7 amended: when every request raises, safe_request returns None after
\* exactly 3 requests and 3 sleeps of 5: it sleeps after the last one too.
C7_ThreeSleeps ==
    (rq_pc = "returned" /\ AllRaised) =>
        /\ rq_ret = None
        /\ Len(rq_log) = 3
        /\ rq_sleeps = <<5, 5, 5>>

C7_Witness ==
    /\ rq_pc = "returned"
    /\ rq_log = <<Raised, Raised, Raised>>

\* C8: k replies 429 followed by a 200 make safe_request return the response
\* after k+1 requests and k sleeps of 10; a 429 uses up one of the
\* MAX_RETRIES attempts like any other request.
C8_RateLimitRetries ==
    /\ rq_attempt = Len(rq_log)
    /\ rq_attempt <= MAX_RETRIES
    /\ (rq_pc = "returned" /\ RateLimitedThen200) =>
          /\ rq_ret # None
          /\ rq_sleeps = [i \in 1..(Len(rq_log) - 1) |-> 10]

\* C8 witness: [429, 429, 200]
C8_Witness ==
    /\ rq_pc = "returned"
    /\ rq_log = <<Answered(429), Answered(429), Answered(200)>>
    /\ rq_sleeps = <<10, 10>>

\* C9: a status other than 200 and 429 makes safe_request return None at
\* once: no request and no sleep follow it.
C9_UnexpectedStatusReturns ==
    \A i \in 1..Len(rq_log) :
        IsUnexpected(rq_log[i]) =>
            /\ i = Len(rq_log)
            /\ rq_pc = "returned"
            /\ rq_ret = None
            /\ Len(rq_sleeps) = Len(rq_log) - 1

\* C9 witness: an unexpected status on the first of the three attempts,
\* and on the second after a 429.
C9_Witness ==
    /\ rq_pc = "returned"
    /\ Len(rq_log) = 2
    /\ Is429(rq_log[1])
    /\ IsUnexpected(rq_log[2])
    /\ rq_sleeps = <<10>>

-----------------------------------------------------------------------------
(* The payloads build_dataset_for_clan is called on in SpecClan: a clan of  *)
(* two members; the battle log of the first is any list of the shapes       *)
(* below, the second has one well-formed Ladder battle or does not answer.  *)

\* Crown counts of the payloads are 0..MaxCrowns (the game's are 0..3).
MaxCrowns == 2

With(d, k, v) == [x \in DOMAIN d \cup {k} |-> IF x = k THEN v ELSE d[x]]
Without(d, k) == [x \in DOMAIN d \ {k} |-> d[x]]

Member1 == <<"#", "A", "1">>
Member2 == <<"#", "A", "2">>

\* The opponent's "clan" entry: the key is missing, or its value is one of these.
ClanShapes == <<"absent", "null", "empty", "tagged", "untagged">>
ClanValue(shape) ==
    CASE shape = "null" -> JsonNull
      [] shape = "empty" -> EmptyDict
      [] shape = "tagged" -> [tag |-> <<"#", "B">>, name |-> "Bees"]
      [] shape = "untagged" -> [name |-> "Bees"]

\* A Ladder battle with every required field.
Battle(player_tag, crowns, opponent_crowns, shape, trophies) ==
    LET side == [tag |-> player_tag, crowns |-> crowns,
                 cards |-> <<[name |-> "Knight"], [name |-> "Giant"]>>]
        other == [tag |-> <<"#", "X", "1">>, crowns |-> opponent_crowns,
                  cards |-> <<[name |-> "Archers"]>>]
        player == IF trophies THEN With(side, "startingTrophies", 5000) ELSE side
        rated == IF trophies THEN With(other, "startingTrophies", 4900) ELSE other
        opponent == IF shape = "absent" THEN rated
                    ELSE With(rated, "clan", ClanValue(shape))
    IN [gameMode |-> [name |-> "Ladder"], team |-> <<player>>,
        opponent |-> <<opponent>>]

GoodBattle(player_tag) == Battle(player_tag, 2, 1, "tagged", TRUE)

\* The well-formed battles, numbered from 0: every crown pair, clan shape,
\* and trophies present or not.
NCrowns == MaxCrowns + 1
NValid == NCrowns * NCrowns * Len(ClanShapes) * 2
ValidEntry(n) ==
    Battle(Member1,
           n % NCrowns,
           (n \div NCrowns) % NCrowns,
           ClanShapes[((n \div (NCrowns * NCrowns)) % Len(ClanShapes)) + 1],
           (n \div (NCrowns * NCrowns * Len(ClanShapes))) = 1)

\* Entries of another game mode, entries missing a required field, and entries
\* on which the game mode test itself raises.
OtherEntries ==
    LET good == GoodBattle(Member1)
        player == good.team[1]
        opponent == good.opponent[1]
    IN << With(good, "gameMode", [name |-> "Challenge"]),
          With(good, "gameMode", EmptyDict),
          Without(good, "gameMode"),
          Without(good, "team"),
          With(good, "team", <<>>),
          Without(good, "opponent"),
          With(good, "opponent", <<>>),
          With(good, "team", <<Without(player, "cards")>>),
          With(good, "opponent", <<With(opponent, "cards", <<[id |-> 1]>>)>>),
          With(good, "team", <<Without(player, "crowns")>>),
          With(good, "opponent", <<Without(opponent, "crowns")>>),
          With(good, "team", <<Without(player, "tag")>>),
          With(good, "opponent", <<Without(opponent, "tag")>>),
          With(good, "gameMode", JsonNull),
          JsonString >>

NEntries == NValid + Len(OtherEntries)
Entry(n) == IF n < NValid THEN ValidEntry(n) ELSE OtherEntries[n - NValid + 1]

\* The battle logs of the first member, numbered from 0: the empty log, one
\* entry, and one entry after or before a well-formed battle.
NLogs == 1 + 3 * NEntries
Log(k) ==
    IF k = 0 THEN <<>>
    ELSE LET e == Entry((k - 1) % NEntries)
             form == (k - 1) \div NEntries
         IN CASE form = 0 -> <<e>>
              [] form = 1 -> <<GoodBattle(Member1), e>>
              [] form = 2 -> <<e, GoodBattle(Member1)>>

Json(value) == Some([ok |-> TRUE, json |-> value])
NotJson == Some([ok |-> FALSE])

\* What safe_request returns for the battle log of the first member.
NLogResponses == NLogs + 2
LogResponse(k) ==
    IF k = NLogs THEN None
    ELSE IF k = NLogs + 1 THEN NotJson
    ELSE Json(Log(k))

\* What safe_request returns for the member list.
MemberResponses ==
    << Json([items |-> <<[tag |-> Member1], [tag |-> Member2]>>]),
       Json([items |-> <<[tag |-> Member2], [tag |-> Member1]>>]),
       Json([items |-> <<>>]),
       Json([items |-> <<[tag |-> Member1], [name |-> "anonymous"]>>]),
       Json([reason |-> "notFound"]),
       NotJson,
       None >>

ClanApi(m, k, second) ==
    (ClanMembersUrl(ClanA) :> MemberResponses[m])
        @@ (BattlelogUrl(StripFirst(Member1)) :> LogResponse(k))
        @@ (BattlelogUrl(StripFirst(Member2)) :>
                IF second THEN Json(<<GoodBattle(Member2)>>) ELSE None)

-----------------------------------------------------------------------------
(* build_dataset_for_clan on these payloads *)

InitClan ==
    /\ cl_pc = "called"
    /\ cl_tag = ClanA
    /\ \E m \in 1..Len(MemberResponses), k \in 0..(NLogResponses - 1),
          second \in BOOLEAN : cl_api = ClanApi(m, k, second)
    /\ cl_df = <<>>

\* Lines 236-267: the call returns the table.
BuildDatasetForClan ==
    /\ cl_pc = "called"
    /\ cl_df' = build_dataset_for_clan(cl_tag, cl_api)
    /\ cl_pc' = "returned"
    /\ UNCHANGED <<cl_tag, cl_api>>

OnlyClan == UNCHANGED <<run_vars, req_vars, ck_vars, pb_vars>>

NextClan == BuildDatasetForClan /\ OnlyClan

InitClanCall == InitRun /\ InitReqIdle /\ InitClan /\ InitCkIdle /\ InitPbIdle

SpecClan == InitClanCall /\ [][NextClan]_vars

-----------------------------------------------------------------------------
(* Properties of build_dataset_for_clan (SpecClan) *)

\* The parsed battles the returned table was built from.
Parsed == AllParsedBattles(cl_tag, cl_api)

\* Row m shows row r from the other side: every player field of one is the
\* opponent field of the other.
Swapped(m, r) ==
    /\ m.player_tag = r.opponent_tag /\ m.opponent_tag = r.player_tag
    /\ m.player_deck = r.opponent_deck /\ m.opponent_deck = r.player_deck
    /\ m.player_trophies = r.opponent_trophies
    /\ m.opponent_trophies = r.player_trophies
    /\ m.player_crowns = r.opponent_crowns
    /\ m.opponent_crowns = r.player_crowns

\* C5: in every row of the returned table, original or mirrored, result is 1
\* if and only if player_crowns > opponent_crowns; with equal crowns both the
\* row and its mirror have result 0.
C5_TiePolicy ==
    cl_pc = "returned" =>
        \A i \in 1..Len(cl_df) :
            cl_df[i].result = 1 <=> cl_df[i].player_crowns > cl_df[i].opponent_crowns

\* C10: the returned table has two rows per parsed battle, the parsed rows
\* first and then their mirrors; a mirror swaps the player and opponent
\* fields and has no opponent_clan; mirroring twice gives the row back but
\* for its opponent_clan.
C10_Mirroring ==
    cl_pc = "returned" =>
        /\ Len(cl_df) = 2 * Len(Parsed)
        /\ \A i \in 1..Len(Parsed) :
              LET r == cl_df[i]
                  m == cl_df[Len(Parsed) + i]
              IN /\ r = Parsed[i]
                 /\ Swapped(m, r)
                 /\ m.opponent_clan = None
                 /\ flipped(flipped(r)) = [r EXCEPT !.opponent_clan = None]
                 /\ flipped(m) = [r EXCEPT !.opponent_clan = None]

\* C10 witness: battles of both members, the first of a row with an
\* opponent clan and with sides that differ in every field.
C10_Witness ==
    /\ cl_pc = "returned"
    /\ Len(Parsed) = 3
    /\ Len(cl_df) = 6
    /\ cl_df[1].opponent_clan # None
    /\ cl_df[4].opponent_clan = None
    /\ cl_df[1].player_tag # cl_df[1].opponent_tag
    /\ cl_df[1].player_deck # cl_df[1].opponent_deck
    /\ cl_df[1].player_trophies # cl_df[1].opponent_trophies
    /\ cl_df[1].player_crowns # cl_df[1].opponent_crowns

\* The member list as the API answered it, and whether every step of
\* get_clan_members succeeds on it.
MembersResponse == Fetch(cl_api, ClanMembersUrl(cl_tag))
MembersResolved ==
    /\ MembersResponse # None
    /\ MembersResponse[1].ok
    /\ Has(MembersResponse[1].json, "items")
    /\ \A i \in 1..Len(MembersResponse[1].json.items) :
          Has(MembersResponse[1].json.items[i], "tag")
MemberTags ==
    IF MembersResolved
    THEN {StripFirst(MembersResponse[1].json.items[i].tag) :
             i \in 1..Len(MembersResponse[1].json.items)}
    ELSE {}

\* C15: build_dataset_for_clan returns a table whatever the API answers; a
\* member list that cannot be resolved or is empty gives the empty table;
\* the rows of every member, and their mirrors, are in the table whether or
\* not the battle-log fetch of another member failed.
C15_PlayerFailureIsolated ==
    cl_pc = "returned" =>
        /\ MemberTags = {} => cl_df = <<>>
        /\ \A t \in MemberTags :
              \A r \in Range(get_battles_for_player(t, cl_api)) :
                  r \in Range(cl_df) /\ flipped(r) \in Range(cl_df)

\* C15 witness: the battle log of the first of two members could not be
\* fetched; the table holds the battle of the second member and its mirror.
C15_Witness ==
    /\ cl_pc = "returned"
    /\ MembersResolved
    /\ MembersResponse[1].json.items = <<[tag |-> Member1], [tag |-> Member2]>>
    /\ Fetch(cl_api, BattlelogUrl(StripFirst(Member1))) = None
    /\ Len(cl_df) = 2
    /\ cl_df[1].player_tag = Member2
    /\ cl_df[2].opponent_tag = Member2

\* C16: a malformed entry of a battle log (an entry that is no object, or
\* whose gameMode is null) is dropped on its own: every Ladder entry of the
\* same log that parses has its row in the table.
C16_RecordIsolation ==
    LET response == Fetch(cl_api, BattlelogUrl(StripFirst(Member1)))
    IN (/\ cl_pc = "returned"
        /\ StripFirst(Member1) \in MemberTags
        /\ response # None
        /\ response[1].ok)
       => \A i \in 1..Len(response[1].json) :
             LET battle == response[1].json[i]
             IN IsLadder(battle) /\ parse_battle(battle) # None
                    => parse_battle(battle)[1] \in Range(cl_df)

-----------------------------------------------------------------------------
(* save_visited_clans and load_visited_clans on one checkpoint file          *)
(* (SpecCheckpoint): the file is absent, holds a JSON array of tags, holds   *)
(* the first part of one (a write cut short), or holds null.                 *)

\* Tags with a common prefix and tags whose characters json.dumps escapes.
CkTags == {<<"A">>, <<"A", "B">>, <<"9", "\"">>, <<"\\", ",">>}

\* Length of the arrays the checkpoint file holds before the calls.
MaxListLen == 2

RECURSIVE Lists(_)
\* The lists of at most n tags, sorted or not, with or without repetition.
Lists(n) ==
    IF n = 0 THEN {<<>>}
    ELSE LET shorter == Lists(n - 1)
         IN shorter \cup {Append(l, t) : l \in shorter, t \in CkTags}

WellFormedTexts == {json_dumps(l) : l \in Lists(MaxListLen)}

\* What is in the file when the write of a well-formed text is cut short.
TornTexts ==
    UNION {{SubSeq(t, 1, k) : k \in 0..(Len(t) - 1)} : t \in WellFormedTexts}
        \ WellFormedTexts

NullText == <<"n", "u", "l", "l">>

CkFiles ==
    {None} \cup {Some(t) : t \in WellFormedTexts \cup TornTexts \cup {NullText}}

InitCheckpoint ==
    /\ ck_pc = "start"
    /\ ck_visited \in SUBSET CkTags
    /\ ck_file \in CkFiles
    /\ ck_loaded = {}

\* Lines 52-62: save_visited_clans(ck_visited)
SaveVisitedClans ==
    /\ ck_pc = "start"
    /\ ck_file' = save_visited_clans(ck_visited)
    /\ ck_pc' = "saved"
    /\ UNCHANGED <<ck_visited, ck_loaded>>

\* Lines 31-49: load_visited_clans(), on the file as found or as just saved.
LoadVisitedClans ==
    /\ ck_pc \in {"start", "saved"}
    /\ ck_loaded' = load_visited_clans(ck_file)
    /\ ck_pc' = IF ck_pc = "start" THEN "loaded" ELSE "reloaded"
    /\ UNCHANGED <<ck_visited, ck_file>>

OnlyCk == UNCHANGED <<run_vars, req_vars, clan_vars, pb_vars>>

NextCheckpoint ==
    \/ SaveVisitedClans /\ OnlyCk
    \/ LoadVisitedClans /\ OnlyCk

InitCheckpointCalls ==
    InitRun /\ InitReqIdle /\ InitClanIdle /\ InitCheckpoint /\ InitPbIdle

SpecCheckpoint == InitCheckpointCalls /\ [][NextCheckpoint]_vars

-----------------------------------------------------------------------------
(* Properties of the checkpoint (SpecCheckpoint) *)

\* C12: for every set S of tags, load_visited_clans after
\* save_visited_clans(S) returns exactly S, and the file written is the
\* JSON text of the list of the members of S, each once, in ascending order.
C12_SaveLoadRoundTrip ==
    /\ ck_pc \in {"saved", "reloaded"} =>
          /\ ck_file # None
          /\ \E l \in [1..Cardinality(ck_visited) -> ck_visited] :
                /\ \A i, j \in DOMAIN l : i < j => StrLess(l[i], l[j])
                /\ ck_file[1] = json_dumps(l)
          /\ Range(json_loads(ck_file[1]).value) = ck_visited
    /\ ck_pc = "reloaded" => ck_loaded = ck_visited

\* C12 witness: a set of tags with a common prefix and with characters that
\* need escaping was saved over a torn file and loaded back.
C12_Witness ==
    /\ ck_pc = "reloaded"
    /\ ck_visited = CkTags
    /\ ck_loaded = CkTags

-----------------------------------------------------------------------------
(* parse_battle on one entry of these payloads (SpecParse) *)

InitParse ==
    /\ pb_pc = "called"
    /\ pb_n \in 0..(NEntries - 1)
    /\ pb_battle = Entry(pb_n)
    /\ pb_ret = None

\* parse_battle without its try/except: the exception leaves the function.
ParseBattle_uncaught ==
    /\ pb_pc = "called"
    /\ IF ParseOk(pb_battle)
       THEN pb_ret' = parse_battle(pb_battle) /\ pb_pc' = "returned"
       ELSE pb_ret' = None /\ pb_pc' = "raised"
    /\ UNCHANGED <<pb_n, pb_battle>>

\* Lines 129-155: the call returns the record, or None from the except.
ParseBattle ==
    /\ pb_pc = "called"
    /\ pb_ret' = parse_battle(pb_battle)
    /\ pb_pc' = "returned"
    /\ UNCHANGED <<pb_n, pb_battle>>

OnlyPb == UNCHANGED <<run_vars, req_vars, clan_vars, ck_vars>>

NextParse == ParseBattle /\ OnlyPb

InitParseCall ==
    InitRun /\ InitReqIdle /\ InitClanIdle /\ InitCkIdle /\ InitParse

SpecParse == InitParseCall /\ [][NextParse]_vars

-----------------------------------------------------------------------------
(* Properties of parse_battle (SpecParse) *)

\* A participant without its card list, a card name, its crowns or its tag.
LacksField(p) ==
    \/ ~Has(p, "cards")
    \/ \E i \in 1..Len(p.cards) : ~Has(p.cards[i], "name")
    \/ ~Has(p, "crowns")
    \/ ~Has(p, "tag")

\* A battle without a team or opponent array, with an empty one, or whose
\* first team or opponent participant lacks a required field.
LacksRequired(battle) ==
    \/ ~IsObject(battle)
    \/ ~Has(battle, "team")
    \/ ~Has(battle, "opponent")
    \/ Len(battle.team) = 0
    \/ Len(battle.opponent) = 0
    \/ LacksField(battle.team[1])
    \/ LacksField(battle.opponent[1])

\* C14: parse_battle never raises, and it returns None for every battle that
\* lacks the team or opponent array or another required field.
C14_MissingFieldGivesNone ==
    /\ pb_pc # "raised"
    /\ pb_pc = "returned" /\ LacksRequired(pb_battle) => pb_ret = None

\* C14 witness: a battle without the team array was parsed to None.
C14_Witness ==
    /\ pb_pc = "returned"
    /\ IsObject(pb_battle)
    /\ ~Has(pb_battle, "team")
    /\ Has(pb_battle, "opponent")
    /\ pb_ret = None

\* C17: for a battle with every required field a record is produced, and
\* its opponent_clan is the clan tag without "#" when the opponent has a
\* clan object with a tag, and None in every other case: no clan entry, an
\* empty clan object, a clan object without a tag.
C17_OpponentClan ==
    pb_pc = "returned" /\ ~LacksRequired(pb_battle) =>
        LET opponent == pb_battle.opponent[1]
            tagged == /\ Has(opponent, "clan")
                      /\ IsObject(opponent.clan)
                      /\ Has(opponent.clan, "tag")
        IN /\ pb_ret # None
           /\ pb_ret[1].opponent_clan =
                 IF tagged
                 THEN Some(SelectSeq(opponent.clan.tag, LAMBDA c : c # "#"))
                 ELSE None

-----------------------------------------------------------------------------
(* The pipeline run again and again (SpecLive), from the files a first run   *)
(* has left: no run is killed, every run has a quota of at least 1, the      *)
(* crawl of a clan that has rows to give may fail but does not fail for      *)
(* ever, and the crawl of a clan that has none stays empty.                  *)

\* Clans whose member list the API answers with an error throughout.
UnreachableClans == {ClanA}

\* Clans every crawl of which returns the empty table.
EmptyClans == UnreachableClans \cup {c \in Clans : MatchesOf(c) = <<>>}

\* The non-empty tables the crawl of the starting clan can return.
FirstTables ==
    {build_dataset_for_clan(FIRST_CLAN_TAG, api) :
        api \in CrawlApis(FIRST_CLAN_TAG)} \ {<<>>}

\* The files after a first run none of whose expansion crawls returned rows:
\* the table of the starting clan and the checkpoint of the empty set.
InitLiveRun ==
    /\ pc = "idle"
    /\ disk_dataset \in {Some(table) : table \in FirstTables}
    /\ disk_visited = save_visited_clans({})
    /\ df = <<>>
    /\ visited = {}
    /\ new_clans = <<>>
    /\ idx = 0
    /\ all_new_data = <<>>
    /\ max_new_clans = 1
    /\ runs = 1
    /\ in_df = <<>>
    /\ in_visited = {}
    /\ crawled = <<>>
    /\ start_dataset = None
    /\ start_visited = None
    /\ nonempty_crawled = {FIRST_CLAN_TAG}

InitLive ==
    InitLiveRun /\ InitReqIdle /\ InitClanIdle /\ InitCkIdle /\ InitPbIdle

LiveStart ==
    /\ StartProcess
    /\ max_new_clans' >= 1
    /\ UNCHANGED runs

LiveExpandClan ==
    /\ ExpandClan
    /\ new_clans[idx + 1] \in EmptyClans => ~crawled'[Len(crawled')].nonempty

\* An expansion crawl that returns rows.
CrawlReturnsRows ==
    /\ LiveExpandClan
    /\ crawled'[Len(crawled')].nonempty
    /\ OnlyRun

NextLive ==
    \/ LiveStart /\ OnlyRun
    \/ BeginExpand /\ OnlyRun
    \/ LiveExpandClan /\ OnlyRun
    \/ FinishExpand /\ OnlyRun
    \/ SaveParquet /\ OnlyRun
    \/ SaveVisited /\ OnlyRun

\* The scheduler starts a run whenever none is in progress and a run in
\* progress takes its next step; a clan with rows to give that is crawled
\* again and again is crawled with success at some point.
SpecLive ==
    InitLive /\ [][NextLive]_vars /\ WF_vars(NextLive) /\ SF_vars(CrawlReturnsRows)

\* C20: with a quota of at least 1 and runs repeated for ever, every clan
\* that is an opponent_clan of the dataset file and whose crawl returns rows
\* is eventually in the checkpoint file: clans whose crawl stays empty do
\* not take the quota for ever.
C20_EveryClanEventuallyVisited ==
    \A c \in Clans \ EmptyClans :
        (disk_dataset # None /\ c \in OpponentClans(disk_dataset[1]))
            ~> (c \in OnDiskVisited)


====
